---- MODULE Spec2Model ----
(***************************************************************************)
(* Model of run.py: the sequential job driver main(), the artifact         *)
(* uploader upload_to_s3(), the scratch cleaner clear_target_folder() and  *)
(* the delayed shutdown at the end of main().                              *)
(*                                                                         *)
(* External collaborators are modelled by their outcome: get_job(),        *)
(* job.run(), job.cleanup() and s3_client.upload_file() either return or   *)
(* raise an Exception (the class the per-job handler catches).  A          *)
(* KeyboardInterrupt is modelled where the code handles it, in the         *)
(* shutdown wait.                                                          *)
(***************************************************************************)
EXTENDS Integers, Sequences, FiniteSets, TLC

\* ---------------------------------------------------------------- bounds
MaxConfigs == 3        \* longest config_file_list explored
MaxFiles == 2          \* most checkpoint files glob() returns for one job
MaxEntries == 3        \* most direct entries of the target folder
MaxShutdownTime == 2   \* largest --shutdown-time explored (seconds)

\* What os.path.isfile / os.path.isdir / shutil.rmtree distinguish in a
\* direct entry of the folder:
\*   file         isfile() is true (a regular file, or a symlink to one)
\*   dir          a real directory, with whatever it contains
\*   symlink_dir  a symlink to a directory: isdir() is true, rmtree() refuses
\*   other        neither isfile() nor isdir(): broken symlink, FIFO, socket
Kinds == {"file", "dir", "symlink_dir", "other"}

RECURSIVE SumOver(_, _)
SumOver(f, S) ==
    IF S = {} THEN 0
    ELSE LET k == CHOOSE x \in S : TRUE IN f[k] + SumOver(f, S \ {k})

\* Number of direct entries of a listing (a bag of kinds).
Count(b) == SumOver(b, Kinds)

EmptyBag == [k \in Kinds |-> 0]

Listings == {b \in [Kinds -> 0..MaxEntries] : Count(b) <= MaxEntries}

\* The target folder: whether the path exists, and its direct entries.
Folders ==
    {[exists |-> TRUE, entries |-> b] : b \in Listings}
        \cup {[exists |-> FALSE, entries |-> EmptyBag]}

VARIABLES
    config_file_list,  \* args.config_file_list
    args,              \* parsed flags: recover, shutdown, shutdown_time
    environ,           \* os.environ: is the bucket name set, is the pod id set
    pc,                \* position of main()
    idx,               \* 1-based position of the for loop in config_file_list
    jobs_completed,
    jobs_failed,
    files,             \* upload_to_s3: files of the glob not yet uploaded
    folder,            \* args.target_folder on disk
    parts,             \* clear_target_folder: entries of os.listdir() not yet visited
    remaining,         \* time.sleep(): seconds left
    stopIssued,        \* "runpodctl stop pod" has been run
    end_messages,      \* what print_end_message() has printed, one item per call
    msgs,              \* shutdown messages printed
    \* history, kept to state the properties
    resolved,          \* configs handed to get_job(), in order
    jobErrors,         \* exceptions raised by get_job / run / cleanup
    postErrors,        \* exceptions raised by upload_to_s3 / clear_target_folder
    done,              \* steps of the current job that returned without error
    globbed,           \* files the current job's glob() returned
    before,            \* the folder's entries when clear_target_folder listed it
    waited,            \* seconds of the shutdown wait that have elapsed
    interrupted        \* where a KeyboardInterrupt arrived: none / sleep / stop

progVars == <<config_file_list, args, environ, pc, idx, jobs_completed,
              jobs_failed, files, folder, parts, remaining, stopIssued,
              end_messages, msgs>>
histVars == <<resolved, jobErrors, postErrors, done, globbed, before, waited,
              interrupted>>
vars == <<progVars, histVars>>

N == Len(config_file_list)

\* ------------------------------------------------------ print_end_message
Plural(n) == IF n = 1 THEN "" ELSE "s"

print_end_message(completed, failed) ==
    LET failure_string ==
            IF failed > 0 THEN <<failed, "failure", Plural(failed)>> ELSE <<>>
        completed_string == <<completed, "completed job", Plural(completed)>>
    IN  (IF Len(completed_string) > 0 THEN <<completed_string>> ELSE <<>>)
            \o (IF Len(failure_string) > 0 THEN <<failure_string>> ELSE <<>>)

\* ------------------------------------------------------------------- Init
Init ==
    /\ config_file_list \in {[i \in 1..n |-> i] : n \in 1..MaxConfigs}
    /\ args \in [recover : BOOLEAN, shutdown : BOOLEAN,
                 shutdown_time : -1..MaxShutdownTime]
    /\ environ \in [SAVE_CHECKPOINT_BUCKET_NAME : BOOLEAN, RUNPOD_POD_ID : BOOLEAN]
    /\ pc = "loop"
    /\ idx = 1
    /\ jobs_completed = 0
    /\ jobs_failed = 0
    /\ files = 0
    /\ folder = [exists |-> TRUE, entries |-> EmptyBag]
    /\ parts = EmptyBag
    /\ remaining = 0
    /\ stopIssued = FALSE
    /\ end_messages = <<>>
    /\ msgs = {}
    /\ resolved = <<>>
    /\ jobErrors = 0
    /\ postErrors = 0
    /\ done = {}
    /\ globbed = 0
    /\ before = EmptyBag
    /\ waited = 0
    /\ interrupted = "none"

\* ------------------------------------------------- the per-job handler
\* except Exception as e: (lines 161-166).  Everything of the try block
\* that raises lands here; the primed variables it does not mention are
\* set by the raising action.
HandlerSummaryBeforeCount ==
    /\ jobs_failed' = jobs_failed + 1
    /\ IF ~args.recover
       THEN /\ end_messages' =
                  Append(end_messages, print_end_message(jobs_completed, jobs_failed))
            /\ pc' = "raised"
            /\ idx' = idx
       ELSE /\ end_messages' = end_messages
            /\ pc' = "loop"
            /\ idx' = idx + 1

HandlerSwallows ==
    /\ jobs_failed' = jobs_failed + 1
    /\ end_messages' = end_messages
    /\ pc' = "loop"
    /\ idx' = idx + 1

Handler ==
    /\ jobs_failed' = jobs_failed + 1
    /\ IF ~args.recover
       THEN /\ end_messages' =
                  Append(end_messages, print_end_message(jobs_completed, jobs_failed'))
            /\ pc' = "raised"
            /\ idx' = idx
       ELSE /\ end_messages' = end_messages
            /\ pc' = "loop"
            /\ idx' = idx + 1

\* Leaving the try block normally: the for loop takes the next config.
NextConfig ==
    /\ pc' = "loop"
    /\ idx' = idx + 1

\* The job-local state is dead once the iteration is over.
ResetJob ==
    /\ files' = 0
    /\ parts' = EmptyBag
    /\ done' = {}
    /\ globbed' = 0
    /\ before' = EmptyBag

shutdownVars == <<remaining, stopIssued, msgs, waited, interrupted>>
constVars == <<config_file_list, args, environ>>

\* ------------------------------------------------------------- the loop
\* line 145: job = get_job(config_file, args.name)
GetJob ==
    /\ pc = "loop"
    /\ idx <= N
    /\ resolved' = Append(resolved, config_file_list[idx])
    /\ \/ /\ pc' = "run"
          /\ done' = {"get_job"}
          /\ UNCHANGED <<idx, jobs_failed, end_messages, jobErrors,
                         files, parts, globbed, before>>
       \/ /\ Handler
          /\ jobErrors' = jobErrors + 1
          /\ ResetJob
    /\ UNCHANGED <<jobs_completed, folder, postErrors>>
    /\ UNCHANGED <<constVars, shutdownVars>>

\* line 146: job.run().  The job writes into the target folder.
Run ==
    /\ pc = "run"
    /\ folder' \in Folders
    /\ \/ /\ pc' = "cleanup"
          /\ done' = done \cup {"run"}
          /\ UNCHANGED <<idx, jobs_failed, end_messages, jobErrors,
                         files, parts, globbed, before>>
       \/ /\ Handler
          /\ jobErrors' = jobErrors + 1
          /\ ResetJob
    /\ UNCHANGED <<jobs_completed, resolved, postErrors>>
    /\ UNCHANGED <<constVars, shutdownVars>>

\* lines 147-156: job.cleanup(); jobs_completed += 1; then, when the bucket
\* name is set, upload_to_s3 starts with its glob (line 59).
Cleanup ==
    /\ pc = "cleanup"
    /\ \/ /\ jobs_completed' = jobs_completed + 1
          /\ IF environ.SAVE_CHECKPOINT_BUCKET_NAME
             THEN /\ pc' = "upload"
                  /\ idx' = idx
                  /\ \E n \in 0..MaxFiles : files' = n /\ globbed' = n
                  /\ done' = done \cup {"cleanup"}
                  /\ UNCHANGED <<parts, before>>
             ELSE /\ NextConfig
                  /\ ResetJob
          /\ UNCHANGED <<jobs_failed, end_messages, jobErrors>>
       \/ /\ Handler
          /\ jobErrors' = jobErrors + 1
          /\ ResetJob
          /\ UNCHANGED jobs_completed
    /\ UNCHANGED <<folder, resolved, postErrors>>
    /\ UNCHANGED <<constVars, shutdownVars>>

\* lines 63-71: one turn of the upload loop, s3_client.upload_file().
UploadFile ==
    /\ pc = "upload"
    /\ files > 0
    /\ \/ /\ files' = files - 1
          /\ UNCHANGED <<pc, idx, jobs_failed, end_messages, postErrors,
                         parts, done, globbed, before>>
       \/ /\ Handler
          /\ postErrors' = postErrors + 1
          /\ ResetJob
    /\ UNCHANGED <<jobs_completed, folder, resolved, jobErrors>>
    /\ UNCHANGED <<constVars, shutdownVars>>

UploadReturnEarly ==
    /\ pc = "upload"
    /\ pc' = "clear"
    /\ done' = done \cup {"upload"}
    /\ UNCHANGED <<idx, jobs_completed, jobs_failed, files, folder, parts,
                   end_messages, resolved, jobErrors, postErrors, globbed, before>>
    /\ UNCHANGED <<config_file_list, args, environ>>
    /\ UNCHANGED <<remaining, stopIssued, msgs, waited, interrupted>>

\* The upload loop is exhausted: upload_to_s3 returns, line 159 calls
\* clear_target_folder.
UploadReturn ==
    /\ pc = "upload"
    /\ files = 0
    /\ pc' = "clear"
    /\ done' = done \cup {"upload"}
    /\ UNCHANGED <<idx, jobs_completed, jobs_failed, files, folder, parts,
                   end_messages, resolved, jobErrors, postErrors, globbed, before>>
    /\ UNCHANGED <<constVars, shutdownVars>>

\* ---------------------------------------------------- clear_target_folder
\* line 77: os.listdir(folder_path); FileNotFoundError when the path is gone.
ClearListdir ==
    /\ pc = "clear"
    /\ IF folder.exists
       THEN /\ parts' = folder.entries
            /\ before' = folder.entries
            /\ pc' = "clear_loop"
            /\ UNCHANGED <<idx, jobs_failed, end_messages, postErrors,
                           files, done, globbed>>
       ELSE /\ Handler
            /\ postErrors' = postErrors + 1
            /\ ResetJob
    /\ UNCHANGED <<jobs_completed, folder, resolved, jobErrors>>
    /\ UNCHANGED <<constVars, shutdownVars>>

ClearOutcomeNoDirBranch(k) ==
    IF k = "file" THEN "removed"
    ELSE "skipped"

\* What lines 78-83 do to the folder for one entry of kind k:
\* "removed", "raised" (rmtree on a symlink) or "skipped" (no branch taken).
ClearOutcome(k) ==
    IF k = "file" THEN "removed"
    ELSE IF k = "dir" THEN "removed"
    ELSE IF k = "symlink_dir" THEN "raised"
    ELSE "skipped"

\* lines 77-83: one turn of the loop, for any entry not yet visited
\* (os.listdir returns the entries in arbitrary order).
ClearPart ==
    /\ pc = "clear_loop"
    /\ \E k \in Kinds :
        /\ parts[k] > 0
        /\ CASE ClearOutcome(k) = "removed" ->
                    /\ folder' = [folder EXCEPT !.entries[k] = @ - 1]
                    /\ parts' = [parts EXCEPT ![k] = @ - 1]
                    /\ UNCHANGED <<pc, idx, jobs_failed, end_messages,
                                   postErrors, files, done, globbed, before>>
             [] ClearOutcome(k) = "skipped" ->
                    /\ parts' = [parts EXCEPT ![k] = @ - 1]
                    /\ UNCHANGED <<pc, idx, jobs_failed, end_messages,
                                   postErrors, files, done, globbed, before, folder>>
             [] OTHER ->
                    /\ Handler
                    /\ postErrors' = postErrors + 1
                    /\ ResetJob
                    /\ UNCHANGED folder
    /\ UNCHANGED <<jobs_completed, resolved, jobErrors>>
    /\ UNCHANGED <<constVars, shutdownVars>>

\* The listing is exhausted: clear_target_folder returns and the try block
\* ends.
ClearReturn ==
    /\ pc = "clear_loop"
    /\ parts = EmptyBag
    /\ NextConfig
    /\ ResetJob
    /\ UNCHANGED <<jobs_completed, jobs_failed, folder, end_messages,
                   resolved, jobErrors, postErrors>>
    /\ UNCHANGED <<constVars, shutdownVars>>

\* ---------------------------------------------------------- after the loop
loopVars == <<idx, jobs_completed, jobs_failed, files, folder, parts,
              end_messages, resolved, jobErrors, postErrors, done, globbed, before>>

LoopEndNoPodCheck ==
    /\ pc = "loop"
    /\ idx > N
    /\ IF args.shutdown
       THEN /\ msgs' = msgs \cup {"configured"}
            /\ pc' = "sleep"
            /\ remaining' = args.shutdown_time
       ELSE /\ pc' = "done"
            /\ UNCHANGED <<msgs, remaining>>
    /\ UNCHANGED <<stopIssued, waited, interrupted>>
    /\ UNCHANGED <<constVars, loopVars>>

\* lines 168-185: the loop is exhausted.
LoopEnd ==
    /\ pc = "loop"
    /\ idx > N
    /\ IF args.shutdown
       THEN IF environ.RUNPOD_POD_ID
            THEN /\ msgs' = msgs \cup {"configured"}
                 /\ pc' = "sleep"
                 /\ remaining' = args.shutdown_time
            ELSE /\ msgs' = msgs \cup {"no_pod_id"}
                 /\ pc' = "done"
                 /\ UNCHANGED remaining
       ELSE /\ pc' = "done"
            /\ UNCHANGED <<msgs, remaining>>
    /\ UNCHANGED <<stopIssued, waited, interrupted>>
    /\ UNCHANGED <<constVars, loopVars>>

\* line 178: time.sleep() of a negative length raises ValueError, which
\* the except KeyboardInterrupt clause does not catch.
SleepInvalid ==
    /\ pc = "sleep"
    /\ remaining < 0
    /\ pc' = "raised"
    /\ UNCHANGED <<remaining, stopIssued, msgs, waited, interrupted>>
    /\ UNCHANGED <<constVars, loopVars>>

\* line 178: one second of the wait passes.
SleepTick ==
    /\ pc = "sleep"
    /\ remaining > 0
    /\ remaining' = remaining - 1
    /\ waited' = waited + 1
    /\ UNCHANGED <<pc, stopIssued, msgs, interrupted>>
    /\ UNCHANGED <<constVars, loopVars>>

\* line 178 returns: the wait has elapsed.
SleepReturn ==
    /\ pc = "sleep"
    /\ remaining = 0
    /\ pc' = "stop"
    /\ UNCHANGED <<remaining, stopIssued, msgs, waited, interrupted>>
    /\ UNCHANGED <<constVars, loopVars>>

SleepInterruptUncaught ==
    /\ pc = "sleep"
    /\ remaining >= 0
    /\ interrupted' = "sleep"
    /\ pc' = "raised"
    /\ UNCHANGED <<remaining, stopIssued, msgs, waited>>
    /\ UNCHANGED <<constVars, loopVars>>

\* lines 178, 180-181: Control-C during the wait.
SleepInterrupt ==
    /\ pc = "sleep"
    /\ remaining >= 0
    /\ interrupted' = "sleep"
    /\ msgs' = msgs \cup {"cancelled"}
    /\ pc' = "done"
    /\ UNCHANGED <<remaining, stopIssued, waited>>
    /\ UNCHANGED <<constVars, loopVars>>

\* line 179: subprocess.run("runpodctl stop pod ..."), check=False.
Stop ==
    /\ pc = "stop"
    /\ stopIssued' = TRUE
    /\ pc' = "done"
    /\ UNCHANGED <<remaining, msgs, waited, interrupted>>
    /\ UNCHANGED <<constVars, loopVars>>

\* lines 179-181: Control-C once the wait is over, before the command is
\* spawned or while it runs; the same except clause catches it.
StopInterrupt ==
    /\ pc = "stop"
    /\ stopIssued' \in BOOLEAN
    /\ interrupted' = "stop"
    /\ msgs' = msgs \cup {"cancelled"}
    /\ pc' = "done"
    /\ UNCHANGED <<remaining, waited>>
    /\ UNCHANGED <<constVars, loopVars>>

Next ==
    \/ GetJob
    \/ Run
    \/ Cleanup
    \/ UploadFile
    \/ UploadReturn
    \/ ClearListdir
    \/ ClearPart
    \/ ClearReturn
    \/ LoopEnd
    \/ SleepInvalid
    \/ SleepTick
    \/ SleepReturn
    \/ SleepInterrupt
    \/ Stop
    \/ StopInterrupt

Spec == Init /\ [][Next]_vars

TypeOK ==
    /\ pc \in {"loop", "run", "cleanup", "upload", "clear", "clear_loop",
               "sleep", "stop", "done", "raised"}
    /\ idx \in 1..(N + 1)
    /\ jobs_completed \in 0..N
    /\ jobs_failed \in 0..N
    /\ files \in 0..MaxFiles
    /\ folder \in Folders
    /\ parts \in Listings
    /\ stopIssued \in BOOLEAN


\* ================================================================ claims
\* The for loop has run out of configs (line 142 found no next item).
LoopEnded == idx > N

\* C1: with recovery mode enabled no failure stops the driver, the configs
\* are attempted in list order, and when the loop ends every attempted job
\* has been counted exactly once, so completed + failed = number of configs.
C1_RecoverCountsEachJobOnce ==
    args.recover =>
        /\ Len(resolved) <= N
        /\ resolved = SubSeq(config_file_list, 1, Len(resolved))
        /\ (pc = "raised" => LoopEnded)
        /\ (LoopEnded =>
                /\ resolved = config_file_list
                /\ jobs_completed + jobs_failed = N)

\* C2: without recovery mode the first failure ends the run: the failure
\* counter is 1, the summary has been printed once with the counters of that
\* moment, the exception is re-raised, no later config is resolved, and when
\* it is the job that failed (get_job, run or cleanup) the completed counter
\* is the number of earlier jobs.
C2_FirstFailureEndsRun ==
    (~args.recover /\ jobs_failed > 0) =>
        /\ pc = "raised"
        /\ jobs_failed = 1
        /\ Len(end_messages) = 1
        /\ end_messages[1] =
              << <<jobs_completed, "completed job", Plural(jobs_completed)>>,
                 <<1, "failure", "">> >>
        /\ idx <= N
        /\ resolved = SubSeq(config_file_list, 1, idx)
        /\ (jobErrors = 1 => jobs_completed = idx - 1)

C2_Witness ==
    /\ ~args.recover
    /\ pc = "raised"
    /\ jobErrors = 1
    /\ jobs_completed = 1
    /\ idx = 2
    /\ N = 3

\* C3: an error raised by the upload or by the folder clearing is not
\* handled by the per-job handler: it is not counted as a failed job and it
\* leaves main() as an uncaught exception, in either mode.
C3_PostErrorsBypassHandler ==
    postErrors > 0 =>
        /\ jobs_failed = jobErrors
        /\ pc = "raised"
        /\ end_messages = <<>>

\* C4: when get_job, run and cleanup return without error for all N configs,
\* the loop ends with completed = N and failed = 0, with or without a bucket.
C4_AllSucceedCounts ==
    (LoopEnded /\ jobErrors = 0) =>
        /\ jobs_completed = N
        /\ jobs_failed = 0

\* C5: the final summary has been printed on every path on which the driver
\* ends, the path on which all configs were processed included.
C5_SummaryOnEveryEnd ==
    pc \in {"done", "raised"} => Len(end_messages) >= 1

\* C6: with shutdown enabled and no pod identifier in the environment, the
\* driver never waits and never issues the stop command; once the loop has
\* ended it prints the warning and ends normally.
C6_NoPodIdSkipsShutdown ==
    (args.shutdown /\ ~environ.RUNPOD_POD_ID) =>
        /\ ~stopIssued
        /\ waited = 0
        /\ pc \notin {"sleep", "stop"}
        /\ "configured" \notin msgs
        /\ ((LoopEnded /\ pc # "loop") =>
                /\ pc = "done"
                /\ msgs = {"no_pod_id"})

C6_Witness ==
    /\ args.shutdown
    /\ ~environ.RUNPOD_POD_ID
    /\ pc = "done"
    /\ "no_pod_id" \in msgs

\* C7: the stop command is issued only with shutdown enabled, a pod
\* identifier present and the whole configured wait elapsed; a Control-C
\* during the wait means the stop command is never issued and the driver
\* ends normally, having printed the cancellation.
C7_StopOnlyAfterFullWait ==
    /\ stopIssued =>
            /\ args.shutdown
            /\ environ.RUNPOD_POD_ID
            /\ LoopEnded
            /\ args.shutdown_time >= 0
            /\ waited = args.shutdown_time
            /\ interrupted # "sleep"
    /\ interrupted = "sleep" =>
            /\ ~stopIssued
            /\ pc = "done"
            /\ "cancelled" \in msgs

C7_Witness ==
    /\ interrupted = "sleep"
    /\ waited = 1
    /\ args.shutdown_time = 2
    /\ pc = "done"

\* C8 as stated: when clear_target_folder is about to return, the folder
\* exists and has zero entries, whatever it held.
C8_ClearLeavesNoEntry ==
    (pc = "clear_loop" /\ parts = EmptyBag) =>
        /\ folder.exists
        /\ Count(folder.entries) = 0

\* C8 amended: when clear_target_folder is about to return, the folder
\* exists, every file and every directory it held has been removed, and
\* what it still holds is exactly the entries that were neither; so a folder
\* of files and directories only has zero entries.
C8_ClearRemovesFilesAndDirs ==
    (pc = "clear_loop" /\ parts = EmptyBag) =>
        /\ folder.exists
        /\ before["symlink_dir"] = 0
        /\ folder.entries =
              [k \in Kinds |-> IF k = "other" THEN before[k] ELSE 0]
        /\ (before["other"] = 0 => Count(folder.entries) = 0)

C8_Witness ==
    /\ pc = "clear_loop"
    /\ parts = EmptyBag
    /\ before["file"] > 0
    /\ before["dir"] > 0
    /\ Count(folder.entries) = 0

\* C9: the scratch folder is cleared only with a bucket configured and
\* after the job's get_job, run and cleanup have returned and every file of
\* the glob has been uploaded without error.
C9_ClearOnlyAfterUploads ==
    pc \in {"clear", "clear_loop"} =>
        /\ environ.SAVE_CHECKPOINT_BUCKET_NAME
        /\ done = {"get_job", "run", "cleanup", "upload"}
        /\ files = 0
        /\ jobs_completed >= 1

C9_Witness ==
    /\ pc = "clear_loop"
    /\ globbed = 2
    /\ Count(before) > 0
    /\ parts # before

\* C10: the shutdown step is reached only once the loop has gone through
\* every config; in default mode a failure means the stop command is never
\* issued and no shutdown message is printed; in recovery mode the loop
\* never raises, whatever the number of failures.
C10_ShutdownOnlyAfterLoop ==
    /\ (pc \in {"sleep", "stop", "done"} \/ stopIssued \/ msgs # {}) =>
            /\ LoopEnded
            /\ resolved = config_file_list
    /\ (~args.recover /\ jobs_failed > 0) =>
            /\ ~stopIssued
            /\ msgs = {}
            /\ pc = "raised"
    /\ (args.recover /\ pc = "raised") =>
            /\ LoopEnded
            /\ "configured" \in msgs

C10_Witness ==
    /\ args.recover
    /\ N = 3
    /\ jobs_failed = 3
    /\ stopIssued

====
